---- MODULE Spec2Model ----
(***************************************************************************)
(* Model of parse_satcat_UCS_for_bounty.py: the value coercer `format`,    *)
(* the fixed-width parser `parse_celestrak_row`, the row fingerprint, and  *)
(* the module-level pipeline with `fix_discrepencies`.                     *)
(*                                                                         *)
(* A Python string is a sequence of one-character strings.  A Python value *)
(* is a record [t |-> tag, v |-> payload]:                                 *)
(*   "str"   payload: the sequence of characters                           *)
(*   "int"   payload: the integer                                          *)
(*   "float" payload: <<sign, kind, num, scale>>, value sign*num/10^scale  *)
(*           when kind = "fin"; kind "nan" / "inf" otherwise               *)
(*   "date"  payload: <<year, month, day>>                                 *)
(*   "none"  payload: <<>>                                                 *)
(*   "raise" payload: <<exception name>>  (the call did not return)        *)
(***************************************************************************)
EXTENDS Integers, Sequences, FiniteSets, TLC

VARIABLES
    \* one value going through format()
    fval, fres, fpc, fcalls,
    \* one line going through parse_celestrak_row()
    pline, pres, ppc,
    \* two rows going through the batch builder's fingerprint
    row_a, row_b, fp_a, fp_b, gpc,
    \* the module-level pipeline (lines 270-286)
    pc, satcat_lines, satcat, satdb, satdb_loaded, i, lookups, warnings, db

fvars == <<fval, fres, fpc, fcalls>>
pvars == <<pline, pres, ppc>>
gvars == <<row_a, row_b, fp_a, fp_b, gpc>>
mvars == <<pc, satcat_lines, satcat, satdb, satdb_loaded, i, lookups,
           warnings, db>>
vars == <<fvars, pvars, gvars, mvars>>

(***************************************************************************)
(* Values                                                                  *)
(***************************************************************************)
StrV(s) == [t |-> "str", v |-> s]
IntV(n) == [t |-> "int", v |-> n]
FloatV(sign, num, scale) == [t |-> "float", v |-> <<sign, "fin", num, scale>>]
NanV == [t |-> "float", v |-> <<1, "nan", 0, 0>>]
InfV(sign) == [t |-> "float", v |-> <<sign, "inf", 0, 0>>]
DateV(y, m, d) == [t |-> "date", v |-> <<y, m, d>>]
None == [t |-> "none", v |-> <<>>]
Raise(e) == [t |-> "raise", v |-> <<e>>]

Min(S) == CHOOSE x \in S : \A y \in S : x <= y
Max(S) == CHOOSE x \in S : \A y \in S : x >= y

(***************************************************************************)
(* Characters                                                              *)
(***************************************************************************)
Digits == {"0", "1", "2", "3", "4", "5", "6", "7", "8", "9"}

DigitVal(c) ==
    CASE c = "0" -> 0 [] c = "1" -> 1 [] c = "2" -> 2 [] c = "3" -> 3
      [] c = "4" -> 4 [] c = "5" -> 5 [] c = "6" -> 6 [] c = "7" -> 7
      [] c = "8" -> 8 [] c = "9" -> 9

DigitChar(n) ==
    CASE n = 0 -> "0" [] n = 1 -> "1" [] n = 2 -> "2" [] n = 3 -> "3"
      [] n = 4 -> "4" [] n = 5 -> "5" [] n = 6 -> "6" [] n = 7 -> "7"
      [] n = 8 -> "8" [] n = 9 -> "9"

\* the characters str.strip(), int() and float() treat as whitespace
Whitespace == {" "}

\* str.upper() on the letters the float literals "nan", "inf", "infinity" use
Upper(c) ==
    CASE c = "n" -> "N" [] c = "a" -> "A" [] c = "i" -> "I" [] c = "f" -> "F"
      [] c = "t" -> "T" [] c = "y" -> "Y" [] OTHER -> c

\* val.strip()
Strip(s) ==
    LET keep == {k \in 1..Len(s) : s[k] \notin Whitespace}
    IN  IF keep = {} THEN <<>> ELSE SubSeq(s, Min(keep), Max(keep))

NotComma(c) == c # ","

\* val.replace(",", "")
RemoveCommas(s) == SelectSeq(s, NotComma)

IsDigit(c) == c \in Digits

RECURSIVE NumVal(_)
\* the number a sequence of decimal digits denotes
NumVal(d) ==
    IF d = <<>> THEN 0
    ELSE NumVal(SubSeq(d, 1, Len(d) - 1)) * 10 + DigitVal(d[Len(d)])

\* digits with single underscores between digits (the digit part of a literal)
IsDigitPart(b) ==
    /\ Len(b) > 0
    /\ b[1] \in Digits
    /\ b[Len(b)] \in Digits
    /\ \A k \in 1..Len(b) :
           \/ b[k] \in Digits
           \/ b[k] = "_" /\ b[k - 1] \in Digits /\ b[k + 1] \in Digits

HasSign(s) == Len(s) > 0 /\ s[1] \in {"+", "-"}
SignOf(s) == IF Len(s) > 0 /\ s[1] = "-" THEN -1 ELSE 1
Unsigned(s) == IF HasSign(s) THEN SubSeq(s, 2, Len(s)) ELSE s

(***************************************************************************)
(* int(s): surrounding whitespace, an optional sign, a digit part.         *)
(***************************************************************************)
IntOk(s) == IsDigitPart(Unsigned(Strip(s)))
IntVal(s) == SignOf(Strip(s)) * NumVal(SelectSeq(Unsigned(Strip(s)), IsDigit))

(***************************************************************************)
(* float(s): surrounding whitespace, an optional sign, then "nan", "inf",  *)
(* "infinity" in any case, or digit part [ "." [digit part] ] or           *)
(* "." digit part.  Exponent forms need "e"/"E", which no input holds.     *)
(***************************************************************************)
WordIs(s, w) == Len(s) = Len(w) /\ \A k \in 1..Len(s) : Upper(s[k]) = w[k]

DotAt(b) == {k \in 1..Len(b) : b[k] = "."}

FloatFinOk(b) ==
    \/ IsDigitPart(b)
    \/ /\ Cardinality(DotAt(b)) = 1
       /\ LET p == Min(DotAt(b))
              ip == SubSeq(b, 1, p - 1)
              fp == SubSeq(b, p + 1, Len(b))
          IN  /\ ip # <<>> \/ fp # <<>>
              /\ ip = <<>> \/ IsDigitPart(ip)
              /\ fp = <<>> \/ IsDigitPart(fp)

FloatOk(s) ==
    LET b == Unsigned(Strip(s))
    IN  \/ WordIs(b, <<"N", "A", "N">>)
        \/ WordIs(b, <<"I", "N", "F">>)
        \/ WordIs(b, <<"I", "N", "F", "I", "N", "I", "T", "Y">>)
        \/ FloatFinOk(b)

RECURSIVE DropTrailingZeros(_)
DropTrailingZeros(d) ==
    IF d # <<>> /\ d[Len(d)] = "0"
    THEN DropTrailingZeros(SubSeq(d, 1, Len(d) - 1))
    ELSE d

FloatVal(s) ==
    LET b == Unsigned(Strip(s))
        sg == SignOf(Strip(s))
    IN  IF WordIs(b, <<"N", "A", "N">>) THEN NanV
        ELSE IF WordIs(b, <<"I", "N", "F">>)
                \/ WordIs(b, <<"I", "N", "F", "I", "N", "I", "T", "Y">>)
        THEN InfV(sg)
        ELSE LET p == IF DotAt(b) = {} THEN Len(b) + 1 ELSE Min(DotAt(b))
                 ip == SelectSeq(SubSeq(b, 1, p - 1), IsDigit)
                 fp == DropTrailingZeros(
                           SelectSeq(SubSeq(b, p + 1, Len(b)), IsDigit))
             IN  FloatV(sg, NumVal(ip \o fp), Len(fp))

(***************************************************************************)
(* datetime.strptime(val, fmt).date() for the three formats of format().   *)
(* The directives match as _strptime's regular expressions do:             *)
(*   %m  1[0-2] | 0[1-9] | [1-9]                                           *)
(*   %d  3[01] | [12]\d | 0[1-9] | [1-9] | " "[1-9]                        *)
(*   %y  \d\d    (00-68 -> 20xx, 69-99 -> 19xx)                            *)
(*   %Y  \d\d\d\d                                                          *)
(* and the whole string must be consumed.  The date constructor rejects    *)
(* year 0 and a day beyond the month's length.                             *)
(***************************************************************************)
NonZero == Digits \ {"0"}

IsMonthTok(s) ==
    \/ Len(s) = 1 /\ s[1] \in NonZero
    \/ Len(s) = 2 /\ s[1] = "1" /\ s[2] \in {"0", "1", "2"}
    \/ Len(s) = 2 /\ s[1] = "0" /\ s[2] \in NonZero

IsDayTok(s) ==
    \/ Len(s) = 1 /\ s[1] \in NonZero
    \/ Len(s) = 2 /\ s[1] = "3" /\ s[2] \in {"0", "1"}
    \/ Len(s) = 2 /\ s[1] \in {"1", "2"} /\ s[2] \in Digits
    \/ Len(s) = 2 /\ s[1] = "0" /\ s[2] \in NonZero
    \/ Len(s) = 2 /\ s[1] = " " /\ s[2] \in NonZero

IsYear2Tok(s) == Len(s) = 2 /\ \A k \in 1..2 : s[k] \in Digits
IsYear4Tok(s) == Len(s) = 4 /\ \A k \in 1..4 : s[k] \in Digits

TokVal(s) == NumVal(SelectSeq(s, IsDigit))

Year2(n) == IF n <= 68 THEN 2000 + n ELSE 1900 + n

IsLeap(y) == (y % 4 = 0) /\ ((y % 100 # 0) \/ (y % 400 = 0))

DaysInMonth(y, m) ==
    IF m = 2 THEN (IF IsLeap(y) THEN 29 ELSE 28)
    ELSE IF m \in {4, 6, 9, 11} THEN 30 ELSE 31

ValidDate(y, m, d) == y >= 1 /\ d <= DaysInMonth(y, m)

SlashAt(s) == {k \in 1..Len(s) : s[k] = "/"}
Part1(s) == SubSeq(s, 1, Min(SlashAt(s)) - 1)
Part2(s) == SubSeq(s, Min(SlashAt(s)) + 1, Max(SlashAt(s)) - 1)
Part3(s) == SubSeq(s, Max(SlashAt(s)) + 1, Len(s))
ThreeParts(s) == Cardinality(SlashAt(s)) = 2

\* "%m/%d/%y"
DateMDyOk(s) ==
    /\ ThreeParts(s)
    /\ IsMonthTok(Part1(s)) /\ IsDayTok(Part2(s)) /\ IsYear2Tok(Part3(s))
    /\ ValidDate(Year2(TokVal(Part3(s))), TokVal(Part1(s)), TokVal(Part2(s)))
DateMDyVal(s) ==
    DateV(Year2(TokVal(Part3(s))), TokVal(Part1(s)), TokVal(Part2(s)))

\* "%m/%d/%Y"
DateMDYOk(s) ==
    /\ ThreeParts(s)
    /\ IsMonthTok(Part1(s)) /\ IsDayTok(Part2(s)) /\ IsYear4Tok(Part3(s))
    /\ ValidDate(TokVal(Part3(s)), TokVal(Part1(s)), TokVal(Part2(s)))
DateMDYVal(s) == DateV(TokVal(Part3(s)), TokVal(Part1(s)), TokVal(Part2(s)))

\* "%Y/%m/%d"
DateYMDOk(s) ==
    /\ ThreeParts(s)
    /\ IsYear4Tok(Part1(s)) /\ IsMonthTok(Part2(s)) /\ IsDayTok(Part3(s))
    /\ ValidDate(TokVal(Part1(s)), TokVal(Part2(s)), TokVal(Part3(s)))
DateYMDVal(s) == DateV(TokVal(Part1(s)), TokVal(Part2(s)), TokVal(Part3(s)))

(***************************************************************************)
(* format(val)                                                             *)
(***************************************************************************)
\* pd.isna(val): None and the float NaN are the missing markers
isna(val) == val.t = "none" \/ val = NanV

NA == <<"N", "/", "A">>

\* format_str with the thousands separators left in the number parses
format_str_keeps_commas(raw) ==
    LET val == Strip(raw)
    IN  IF IntOk(val) THEN IntV(IntVal(val))
        ELSE IF FloatOk(val) THEN FloatVal(val)
        ELSE IF DateMDyOk(val) THEN DateMDyVal(val)
        ELSE IF DateMDYOk(val) THEN DateMDYVal(val)
        ELSE IF DateYMDOk(val) THEN DateYMDVal(val)
        ELSE IF val = <<>> \/ val = NA THEN None
        ELSE StrV(val)

\* lines 141-171: the string branch
format_str(raw) ==
    LET val == Strip(raw)
        num == RemoveCommas(val)
    IN  IF IntOk(num) THEN IntV(IntVal(num))
        ELSE IF FloatOk(num) THEN FloatVal(num)
        ELSE IF DateMDyOk(val) THEN DateMDyVal(val)
        ELSE IF DateMDYOk(val) THEN DateMDYVal(val)
        ELSE IF DateYMDOk(val) THEN DateYMDVal(val)
        ELSE IF val = <<>> \/ val = NA THEN None
        ELSE StrV(val)

format(val) ==
    IF isna(val) THEN None
    ELSE IF val.t \in {"int", "float"} THEN val
    ELSE IF val.t = "str" THEN format_str(val.v)
    ELSE Raise("AttributeError")   \* val.strip() on a value with no strip

(***************************************************************************)
(* The coercer under test: one value, coerced when the table is loaded     *)
(* (line 73) and coerced again when the batch is built (lines 181, 197,    *)
(* 262).                                                                   *)
(***************************************************************************)
MaxLen == 3
MaxCalls == 2

Alphabet == {"0", "1", "2", "3", ",", ".", "/", " ", "N", "A", "-", "_"}

RECURSIVE StringsUpTo(_)
StringsUpTo(n) ==
    IF n = 0 THEN {<<>>}
    ELSE LET S == StringsUpTo(n - 1)
         IN  S \cup {Append(s, c) : s \in {x \in S : Len(x) = n - 1}, c \in Alphabet}

DateParts ==
    { <<"1">>, <<"3">>, <<"0", "2">>, <<"1", "2">>, <<"1", "3">>, <<"2", "9">>,
      <<"3", "0">>, <<"3", "1">>, <<" ", "2">>, <<"0", "0">>, <<"0", "3">>,
      <<"6", "8">>, <<"6", "9">>, <<"2", "0", "0", "3">>, <<"2", "0", "0", "4">>,
      <<"0", "0", "0", "0">>, <<"1", "9", "0", "0">>, <<"2", "0", "0", "0">> }

DateLike == {a \o <<"/">> \o b \o <<"/">> \o c : a, b, c \in DateParts}

S_1c234 == <<"1", ",", "2", "3", "4">>
S_pad42 == <<" ", " ", "4", "2", " ", " ">>
S_padNA == <<" ", "N", "/", "A", " ">>
S_ISS == <<"I", "S", "S", " ", "(", "Z", ")">>

Examples ==
    { S_1c234, S_pad42, S_padNA, S_ISS,
      <<"-", "1", ",", "0", "0", "0", ".", "5", "0">>,
      <<"1", "_", "0", "0", "0">>,
      <<" ", "1", "2", "/", "3", "1", "/", "9", "9", " ">>,
      <<"1", ",", "2", "/", "3", "/", "0", "4">>,
      <<"1", "9", "9", "8", "-", "1", "1", "-", "2", "0">>,
      <<"n", "a", "n">>, <<"-", "I", "n", "f">>, <<"N", ",", "/", "A">> }

NativeInputs == {None, NanV, IntV(0), IntV(42), IntV(-7), FloatV(1, 15, 1)}

FormatInputs ==
    {StrV(s) : s \in StringsUpTo(MaxLen) \cup DateLike \cup Examples}
        \cup NativeInputs

IdleFormat == fval = None /\ fres = None /\ fpc = "idle" /\ fcalls = 0
IdleParse == pline = <<>> /\ pres = None /\ ppc = "idle"
IdleFingerprint ==
    row_a = <<>> /\ row_b = <<>> /\ fp_a = None /\ fp_b = None /\ gpc = "idle"
IdlePipeline ==
    /\ pc = "idle" /\ satcat_lines = <<>>
    /\ satcat = <<>> /\ satdb = <<>> /\ satdb_loaded = <<>>
    /\ i = 0 /\ lookups = <<>> /\ warnings = <<>>
    /\ db = [ucs_satdb |-> <<>>, celestrak_satcat |-> <<>>, ucs_satdb_fixed |-> <<>>]

InitFormat ==
    /\ fval \in FormatInputs
    /\ fres = None
    /\ fpc = "call"
    /\ fcalls = 0
    /\ IdleParse /\ IdleFingerprint /\ IdlePipeline

\* one call of format(val)
format_call ==
    /\ fpc = "call"
    /\ fres' = format(fval)
    /\ fpc' = IF format(fval).t = "raise" THEN "raised" ELSE "returned"
    /\ fcalls' = fcalls + 1
    /\ UNCHANGED <<fval, pvars, gvars, mvars>>

\* the value the first call produced is stored in the table and handed to
\* format again by the batch builder
format_again ==
    /\ fpc = "returned"
    /\ fcalls < MaxCalls
    /\ fval' = fres
    /\ fpc' = "call"
    /\ UNCHANGED <<fres, fcalls, pvars, gvars, mvars>>

NextFormat == format_call \/ format_again

SpecFormat == InitFormat /\ [][NextFormat]_vars

(***************************************************************************)
(* parse_celestrak_row(line)                                               *)
(***************************************************************************)
\* line[a:b]: a slice never fails, it is cut at the end of the line
Slice(line, a, b) ==
    IF a >= Len(line) THEN <<>>
    ELSE SubSeq(line, a + 1, IF b <= Len(line) THEN b ELSE Len(line))

\* line[k] is defined only when k < len(line); IndexError otherwise
IndexOk(line, k) == k < Len(line)
Index(line, k) == <<line[k + 1]>>

\* truth value of a Python string: the empty string is false
Truthy(s) == s # <<>>

\* lines 210-220: "if not flag: flag = 0 else: flag = 1"
FlagOf(s) == IF ~Truthy(s) THEN 0 ELSE 1

TupleV(fields) == [t |-> "tuple", v |-> fields]

parse_celestrak_row(line) ==
    IF ~IndexOk(line, 19) \/ ~IndexOk(line, 20) \/ ~IndexOk(line, 21)
    THEN Raise("IndexError")
    ELSE TupleV(<<
        StrV(Slice(line, 0, 11)),                \* intl_desg
        StrV(Slice(line, 13, 18)),               \* norad_number
        IntV(FlagOf(Index(line, 19))),           \* multiple_name_flag
        IntV(FlagOf(Index(line, 20))),           \* payload_flag
        StrV(Index(line, 21)),                   \* ops_status_code
        StrV(Slice(line, 23, 47)),               \* name
        StrV(Slice(line, 49, 54)),               \* source
        StrV(Slice(line, 56, 66)),               \* launch_date
        StrV(Slice(line, 69, 73)),               \* launch_site
        StrV(Slice(line, 75, 85)),               \* decay_date
        StrV(Slice(line, 87, 94)),               \* orbit_period_minutes
        StrV(Slice(line, 96, 101)),              \* inclination_deg
        StrV(Slice(line, 103, 109)),             \* apogee
        StrV(Slice(line, 111, 117)),             \* perigee
        StrV(Slice(line, 119, 127)),             \* radar_crosssec
        StrV(Slice(line, 129, 132)) >>)          \* orbit_status_code

\* the columns load_celestrak_satcat_data gives the 16 fields
SatcatColumns ==
    << "intl_desg", "norad_num", "multiple_name_flag", "payload_flag",
       "ops_status_code", "name", "source", "launch_date", "launch_site",
       "decay_date", "orbit_period_minutes", "inclination_deg", "apogee",
       "perigee", "radar_crosssec", "orbit_status_code" >>

\* the half-open offset range each field is cut from
FieldRange ==
    << <<0, 11>>, <<13, 18>>, <<19, 20>>, <<20, 21>>, <<21, 22>>, <<23, 47>>,
       <<49, 54>>, <<56, 66>>, <<69, 73>>, <<75, 85>>, <<87, 94>>,
       <<96, 101>>, <<103, 109>>, <<111, 117>>, <<119, 127>>, <<129, 132>> >>

(***************************************************************************)
(* The parser under test: lines of every length, filled with one           *)
(* character, with the three single-character offsets set individually.    *)
(***************************************************************************)
MaxLineLen == 132

FillChars == {"A", " "}

TestLine(n, fill, c19, c20, c21) ==
    [k \in 1..n |-> IF k = 20 THEN c19
                    ELSE IF k = 21 THEN c20
                    ELSE IF k = 22 THEN c21
                    ELSE fill]

ParseInputs ==
    {TestLine(n, fill, c19, c20, c21) :
        n \in 0..MaxLineLen, fill \in FillChars,
        c19 \in FillChars, c20 \in FillChars, c21 \in FillChars}

InitParse ==
    /\ pline \in ParseInputs
    /\ pres = None
    /\ ppc = "call"
    /\ IdleFormat /\ IdleFingerprint /\ IdlePipeline

parse_call ==
    /\ ppc = "call"
    /\ pres' = parse_celestrak_row(pline)
    /\ ppc' = IF parse_celestrak_row(pline).t = "raise" THEN "raised" ELSE "returned"
    /\ UNCHANGED <<pline, fvars, gvars, mvars>>

NextParse == parse_call

SpecParse == InitParse /\ [][NextParse]_vars

(***************************************************************************)
(* str(e) and the row fingerprint of the batch builders                    *)
(***************************************************************************)
RECURSIVE NatStr(_)
\* the decimal digits of a natural number
NatStr(n) ==
    IF n < 10 THEN <<DigitChar(n)>>
    ELSE Append(NatStr(n \div 10), DigitChar(n % 10))

RECURSIVE PadZero(_, _)
\* "%0wd"
PadZero(s, w) == IF Len(s) >= w THEN s ELSE PadZero(<<"0">> \o s, w)

Pow10(k) == IF k = 0 THEN 1 ELSE IF k = 1 THEN 10 ELSE IF k = 2 THEN 100
            ELSE IF k = 3 THEN 1000 ELSE 10000

\* repr of a float in positional notation (the values here are all within
\* 1e-4 <= |x| < 1e16, where Python does not switch to an exponent)
FloatStr(f) ==
    LET sg == IF f[1] < 0 THEN <<"-">> ELSE <<>>
    IN  IF f[2] = "nan" THEN <<"n", "a", "n">>
        ELSE IF f[2] = "inf" THEN sg \o <<"i", "n", "f">>
        ELSE sg \o NatStr(f[3] \div Pow10(f[4])) \o <<".">>
                \o (IF f[4] = 0 THEN <<"0">>
                    ELSE PadZero(NatStr(f[3] % Pow10(f[4])), f[4]))

\* str(e)
Str(e) ==
    CASE e.t = "str" -> e.v
      [] e.t = "int" -> (IF e.v < 0 THEN <<"-">> \o NatStr(-e.v) ELSE NatStr(e.v))
      [] e.t = "float" -> FloatStr(e.v)
      [] e.t = "date" -> PadZero(NatStr(e.v[1]), 4) \o <<"-">>
                            \o PadZero(NatStr(e.v[2]), 2) \o <<"-">>
                            \o PadZero(NatStr(e.v[3]), 2)
      [] e.t = "none" -> <<"N", "o", "n", "e">>

RECURSIVE Join(_)
\* "".join(str(e) for e in row)
Join(row) == IF row = <<>> THEN <<>> ELSE Str(Head(row)) \o Join(Tail(row))

\* md5(line).hexdigest(): the digest stands for the text it was computed
\* from, so two digests are equal exactly when the two texts are
fingerprint_line(line) == [t |-> "md5", v |-> line]

\* record_fingerprint that leaves the last field out of the joined text
record_fingerprint_drops_last(row) ==
    fingerprint_line(Join(SubSeq(row, 1, Len(row) - 1)))

\* record_fingerprint = fingerprint_line("".join(str(e) for e in row))
record_fingerprint(row) == fingerprint_line(Join(row))

(***************************************************************************)
(* The fingerprint under test: two rows of one schema.                     *)
(***************************************************************************)
RowLen == 2

CellValues ==
    { IntV(1), StrV(<<"1">>), None, StrV(<<"N", "o", "n", "e">>),
      IntV(12), StrV(<<"1", "2">>), DateV(2019, 4, 1),
      StrV(<<"2", "0", "1", "9", "-", "0", "4", "-", "0", "1">>),
      StrV(<<"2", "0", "1", "9", "-", "4", "-", "1">>) }

TestRows == [1..RowLen -> CellValues]

InitFingerprint ==
    /\ row_a \in TestRows
    /\ row_b \in TestRows
    /\ fp_a = None
    /\ fp_b = None
    /\ gpc = "call"
    /\ IdleFormat /\ IdleParse /\ IdlePipeline

fingerprint_rows ==
    /\ gpc = "call"
    /\ fp_a' = record_fingerprint(row_a)
    /\ fp_b' = record_fingerprint(row_b)
    /\ gpc' = "done"
    /\ UNCHANGED <<row_a, row_b, fvars, pvars, mvars>>

NextFingerprint == fingerprint_rows

SpecFingerprint == InitFingerprint /\ [][NextFingerprint]_vars

(***************************************************************************)
(* The pipeline: load, persist the two raw tables, reconcile, persist the  *)
(* reconciled table (lines 270-286).                                       *)
(***************************************************************************)
\* the columns load_ucs_satdb_data names
UcsColumns ==
    << "name", "country_registered", "country_owner", "owner_operator",
       "users", "purpose", "purpose_detailed", "orbit_class", "orbit_type",
       "GEO_longitude", "perigee_km", "apogee_km", "eccentricity",
       "inclination_degrees", "period_minutes", "launch_mass_kg",
       "dry_mass_kg", "power_watts", "launch_date",
       "expected_lifetime_years", "contractor", "contractor_country",
       "launch_site", "launch_vehicle", "international_designator",
       "norad_number", "comments", "detailed_comments", "source_1",
       "source_2", "source_3", "source_4", "source_5", "source_6",
       "source_7" >>

Col(columns, name) == CHOOSE j \in 1..Len(columns) : columns[j] = name

\* row.loc[name]
Cell(columns, row, name) == row[Col(columns, name)]

\* satcat.loc[key].  load_celestrak_satcat_data drops the frame that
\* df.set_index("norad_num") returns (line 97), so satcat keeps its default
\* index 0..n-1 and .loc looks the key up among those row labels.  The result
\* is the 1-based row position, or 0 for KeyError.
loc(frame, key) ==
    IF key.t = "int" /\ key.v >= 0 /\ key.v < Len(frame) THEN key.v + 1
    ELSE IF key.t = "float" /\ key.v[2] = "fin" /\ key.v[4] = 0
            /\ key.v[1] * key.v[3] >= 0 /\ key.v[3] < Len(frame)
    THEN key.v[3] + 1
    ELSE 0

\* OverridePairs with the launch site written to the launch_vehicle column
OverridePairs_wrong_column ==
    << <<"name", "name">>,
       <<"perigee_km", "perigee">>,
       <<"apogee_km", "apogee">>,
       <<"inclination_degrees", "inclination_deg">>,
       <<"period_minutes", "orbit_period_minutes">>,
       <<"launch_date", "launch_date">>,
       <<"launch_vehicle", "launch_site">>,
       <<"international_designator", "intl_desg">> >>

\* lines 108-115: satdb column <- satcat column
OverridePairs ==
    << <<"name", "name">>,
       <<"perigee_km", "perigee">>,
       <<"apogee_km", "apogee">>,
       <<"inclination_degrees", "inclination_deg">>,
       <<"period_minutes", "orbit_period_minutes">>,
       <<"launch_date", "launch_date">>,
       <<"launch_site", "launch_site">>,
       <<"international_designator", "intl_desg">> >>

BLAH == StrV(<<"B", "L", "A", "H", " ", "B", "L", "A", "H", " ", "B", "L", "A", "H">>)

\* lines 108-120 on one Registry row; r is the value random.randint(1, 101)
\* returned
override(satdb_row, satcat_row, r) ==
    [j \in 1..Len(satdb_row) |->
        IF UcsColumns[j] = "name" /\ r < 3 THEN BLAH
        ELSE IF \E p \in 1..Len(OverridePairs) : OverridePairs[p][1] = UcsColumns[j]
        THEN LET p == CHOOSE q \in 1..Len(OverridePairs) :
                          OverridePairs[q][1] = UcsColumns[j]
             IN  Cell(SatcatColumns, satcat_row, OverridePairs[p][2])
        ELSE satdb_row[j]]

\* savable with the fingerprint taken over the coerced values
savable_fingerprints_coerced(row) ==
    Append([j \in 1..Len(row) |-> format(row[j])],
           record_fingerprint([j \in 1..Len(row) |-> format(row[j])]))

\* savable = [format(i) for i in row] + [record_fingerprint]
savable(row) ==
    Append([j \in 1..Len(row) |-> format(row[j])], record_fingerprint(row))

\* a batch builder's loop over the frame; the first format() that raises
\* ends the run
Raises(frame) ==
    \E k \in 1..Len(frame) : \E j \in 1..Len(frame[k]) : format(frame[k][j]).t = "raise"

data_batch(frame) == [k \in 1..Len(frame) |-> savable(frame[k])]

\* lines 72-74: every line parsed, every field coerced
ParseRaises(lines) ==
    \E k \in 1..Len(lines) : parse_celestrak_row(lines[k]).t = "raise"

CoercedRow(line) ==
    [j \in 1..Len(SatcatColumns) |-> format(parse_celestrak_row(line).v[j])]

load_celestrak_satcat_data ==
    /\ pc = "load_celestrak_satcat_data"
    /\ IF ParseRaises(satcat_lines)
       THEN pc' = "crashed" /\ UNCHANGED satcat
       ELSE /\ satcat' = [k \in 1..Len(satcat_lines) |-> CoercedRow(satcat_lines[k])]
            /\ pc' = "update_ucs_satdb_table"
    /\ UNCHANGED <<satcat_lines, satdb, satdb_loaded, i, lookups, warnings, db>>
    /\ UNCHANGED <<fvars, pvars, gvars>>

update_ucs_satdb_table ==
    /\ pc = "update_ucs_satdb_table"
    /\ IF Raises(satdb)
       THEN pc' = "crashed" /\ UNCHANGED db
       ELSE /\ db' = [db EXCEPT !.ucs_satdb = @ \o data_batch(satdb)]
            /\ pc' = "update_celestrak_satcat_table"
    /\ UNCHANGED <<satcat_lines, satcat, satdb, satdb_loaded, i, lookups, warnings>>
    /\ UNCHANGED <<fvars, pvars, gvars>>

update_celestrak_satcat_table ==
    /\ pc = "update_celestrak_satcat_table"
    /\ IF Raises(satcat)
       THEN pc' = "crashed" /\ UNCHANGED <<db, i>>
       ELSE /\ db' = [db EXCEPT !.celestrak_satcat = @ \o data_batch(satcat)]
            /\ pc' = "fix_discrepencies"
            /\ i' = 1
    /\ UNCHANGED <<satcat_lines, satcat, satdb, satdb_loaded, lookups, warnings>>
    /\ UNCHANGED <<fvars, pvars, gvars>>

\* one iteration of the loop of fix_discrepencies (lines 104-126)
fix_discrepencies_row ==
    /\ pc = "fix_discrepencies"
    /\ i <= Len(satdb)
    /\ LET norad_number == format(Cell(UcsColumns, satdb[i], "norad_number"))
           at == loc(satcat, norad_number)
       IN  IF norad_number.t = "raise"
           THEN /\ pc' = "crashed"
                /\ UNCHANGED <<satdb, i, lookups, warnings>>
           ELSE /\ pc' = pc
                /\ i' = i + 1
                /\ lookups' = Append(lookups, at)
                /\ IF at = 0
                   THEN /\ warnings' = Append(warnings, <<i, norad_number>>)
                        /\ UNCHANGED satdb
                   ELSE /\ \E r \in 1..101 :
                               satdb' = [satdb EXCEPT ![i] = override(@, satcat[at], r)]
                        /\ UNCHANGED warnings
    /\ UNCHANGED <<satcat_lines, satcat, satdb_loaded, db>>
    /\ UNCHANGED <<fvars, pvars, gvars>>

\* return satdb (line 128)
fix_discrepencies_return ==
    /\ pc = "fix_discrepencies"
    /\ i > Len(satdb)
    /\ pc' = "update_ucs_satdb_fixed_table"
    /\ UNCHANGED <<satcat_lines, satcat, satdb, satdb_loaded, i, lookups, warnings, db>>
    /\ UNCHANGED <<fvars, pvars, gvars>>

update_ucs_satdb_fixed_table ==
    /\ pc = "update_ucs_satdb_fixed_table"
    /\ IF Raises(satdb)
       THEN pc' = "crashed" /\ UNCHANGED db
       ELSE /\ db' = [db EXCEPT !.ucs_satdb_fixed = @ \o data_batch(satdb)]
            /\ pc' = "done"
    /\ UNCHANGED <<satcat_lines, satcat, satdb, satdb_loaded, i, lookups, warnings>>
    /\ UNCHANGED <<fvars, pvars, gvars>>

(***************************************************************************)
(* The inputs of a run: the Registry as the loader returns it and the      *)
(* lines of the catalog file.                                              *)
(***************************************************************************)
MaxRegistry == 2
MaxCatalog == 2

S_x == <<"x">>
S_0 == <<"0">>
S_1 == <<"1">>
S_25544 == <<"2", "5", "5", "4", "4">>
S_99999 == <<"9", "9", "9", "9", "9">>
S_35c778 == <<"3", "5", ",", "7", "7", "8">>

NoradInputs == {StrV(S_0), StrV(S_1), StrV(S_25544), StrV(S_99999), StrV(S_x), NanV}

RegistryRow(norad) ==
    [j \in 1..Len(UcsColumns) |->
        CASE UcsColumns[j] = "norad_number" -> norad
          [] UcsColumns[j] = "name" -> StrV(<<"O", "L", "D">>)
          [] UcsColumns[j] = "perigee_km" -> StrV(S_35c778)
          [] UcsColumns[j] = "launch_mass_kg" -> StrV(S_35c778)
          [] UcsColumns[j] = "expected_lifetime_years" -> NanV
          [] UcsColumns[j] = "power_watts" -> IntV(42)
          [] OTHER -> StrV(S_x)]

Tables(rows, n) == UNION {[1..k -> rows] : k \in 0..n}

\* a catalog line with the given text at each field's offset
MakeLine(fields) ==
    [p \in 1..132 |->
        IF \E f \in 1..Len(FieldRange) :
               p > FieldRange[f][1] /\ p - FieldRange[f][1] <= Len(fields[f])
               /\ p <= FieldRange[f][2]
        THEN LET f == CHOOSE g \in 1..Len(FieldRange) :
                          p > FieldRange[g][1] /\ p <= FieldRange[g][2]
             IN  fields[f][p - FieldRange[f][1]]
        ELSE " "]

CatalogFields(desg, norad, name, launch) ==
    << desg, norad, <<" ">>, <<"*">>, <<"+">>, name, <<"C", "I", "S">>, launch,
       <<"T", "T", "M", "T">>, <<>>, <<"9", "2", ".", "9">>,
       <<"5", "1", ".", "6">>, <<"4", "2", "1">>, <<"4", "1", "8">>,
       <<"N", "/", "A">>, <<>> >>

Line_ISS ==
    MakeLine(CatalogFields(<<"1", "9", "9", "8", "-", "0", "6", "7", "A">>,
                           S_25544, <<"I", "S", "S">>,
                           <<"1", "9", "9", "8", "-", "1", "1", "-", "2", "0">>))
Line_SL1 ==
    MakeLine(CatalogFields(<<"1", "9", "5", "7", "-", "0", "0", "1", "A">>,
                           <<"0", "0", "0", "0", "1">>, <<"S", "L", "-", "1">>,
                           <<"1", "9", "5", "7", "-", "1", "0", "-", "0", "4">>))
Line_slashdate ==
    MakeLine(CatalogFields(<<"1", "9", "5", "8", "-", "0", "0", "2", "B">>,
                           <<"0", "0", "0", "0", "0">>, <<"V", "G", "D">>,
                           <<"1", "9", "5", "8", "/", "0", "3", "/", "1", "7">>))
Line_short == SubSeq(Line_ISS, 1, 20)

CatalogLines == {Line_ISS, Line_SL1, Line_slashdate, Line_short}

Init ==
    /\ pc = "load_celestrak_satcat_data"
    /\ satdb \in Tables({RegistryRow(n) : n \in NoradInputs}, MaxRegistry)
    /\ satdb_loaded = satdb
    /\ satcat_lines \in Tables(CatalogLines, MaxCatalog)
    /\ satcat = <<>>
    /\ i = 0
    /\ lookups = <<>>
    /\ warnings = <<>>
    /\ db = [ucs_satdb |-> <<>>, celestrak_satcat |-> <<>>, ucs_satdb_fixed |-> <<>>]
    /\ IdleFormat /\ IdleParse /\ IdleFingerprint

Next ==
    \/ load_celestrak_satcat_data
    \/ update_ucs_satdb_table
    \/ update_celestrak_satcat_table
    \/ fix_discrepencies_row
    \/ fix_discrepencies_return
    \/ update_ucs_satdb_fixed_table

Spec == Init /\ [][Next]_vars

(***************************************************************************)
(* Properties                                                              *)
(***************************************************************************)
NoradOf(row) == format(Cell(UcsColumns, row, "norad_number"))

\* the TrackingCatalog rows whose norad_num equals Registry row k's
\* normalized norad_number
KeyHits(k) ==
    {j \in 1..Len(satcat) :
        Cell(SatcatColumns, satcat[j], "norad_num") = NoradOf(satdb_loaded[k])}

WarningsFor(k) == {w \in 1..Len(warnings) : warnings[w][1] = k}

EightOverrideFields ==
    { "name", "perigee_km", "apogee_km", "inclination_degrees",
      "period_minutes", "launch_date", "launch_site",
      "international_designator" }

\* C1: every visited Registry row is treated as matched exactly when some
\* TrackingCatalog row carries its catalog number, and the row read is the
\* first row carrying that number, wherever it stands in the dataset.
C1_JoinByCatalogNumber ==
    \A k \in 1..Len(lookups) :
        /\ (lookups[k] # 0) <=> (KeyHits(k) # {})
        /\ KeyHits(k) # {} => lookups[k] = Min(KeyHits(k))

\* C2: after a successful match the eight override fields of the Registry row
\* equal the corresponding fields of the TrackingCatalog row that was read,
\* in every execution.
C2_OverridesEqualCatalog ==
    \A k \in 1..Len(lookups) :
        lookups[k] # 0 =>
            \A p \in 1..Len(OverridePairs) :
                Cell(UcsColumns, satdb[k], OverridePairs[p][1])
                    = Cell(SatcatColumns, satcat[lookups[k]], OverridePairs[p][2])

\* C3: a Registry row whose catalog number is absent from TrackingCatalog,
\* null or non-numeric keeps every field, gets exactly one diagnostic, and
\* the loop goes on to visit every row once.
C3_MissLeavesRowAlone ==
    /\ \A k \in 1..Len(lookups) :
           KeyHits(k) = {} =>
               /\ satdb[k] = satdb_loaded[k]
               /\ Cardinality(WarningsFor(k)) = 1
    /\ pc \in {"update_ucs_satdb_fixed_table", "done"} => Len(lookups) = Len(satdb)

C5_NeverRaises ==
    /\ fpc # "raised"
    /\ fpc = "returned" /\ fcalls >= 2 => fres = fval

\* C6: parse_celestrak_row returns a 16-field tuple for a line of any
\* length, with every field that lies beyond the end of the line empty (or
\* flag 0).
C6_ShortLineParses ==
    ppc # "call" =>
        /\ pres.t = "tuple"
        /\ Len(pres.v) = 16
        /\ \A f \in 1..Len(FieldRange) :
               FieldRange[f][1] >= Len(pline) => pres.v[f] \in {StrV(<<>>), IntV(0)}

\* C7: a line with a character at offset 19 and none at offset 20 parses to
\* multiple_name_flag = 1 and payload_flag = 0.
C7_PresenceFlags ==
    (ppc # "call" /\ Slice(pline, 19, 20) # <<>> /\ Slice(pline, 20, 21) = <<>>) =>
        /\ pres.t = "tuple"
        /\ pres.v[Col(SatcatColumns, "multiple_name_flag")] = IntV(1)
        /\ pres.v[Col(SatcatColumns, "payload_flag")] = IntV(0)

\* C8: on a string, format returns the result of the first step that
\* succeeds: integer, float (both on the trimmed text without ","), the three
\* date patterns in order, null for an empty or "N/A" text, else the trimmed
\* text; null comes back only for an empty or "N/A" trimmed text.
C8_FirstStepWins ==
    (fpc = "returned" /\ fcalls = 1 /\ fval.t = "str") =>
        LET val == Strip(fval.v)
            num == RemoveCommas(val)
            isInt == IntOk(num)
            isFloat == ~isInt /\ FloatOk(num)
            isNum == isInt \/ isFloat
            isD1 == ~isNum /\ DateMDyOk(val)
            isD2 == ~isNum /\ ~isD1 /\ DateMDYOk(val)
            isD3 == ~isNum /\ ~isD1 /\ ~isD2 /\ DateYMDOk(val)
            isDate == isD1 \/ isD2 \/ isD3
        IN  /\ isInt => fres = IntV(IntVal(num))
            /\ isFloat => fres = FloatVal(num)
            /\ isD1 => fres = DateMDyVal(val)
            /\ isD2 => fres = DateMDYVal(val)
            /\ isD3 => fres = DateYMDVal(val)
            /\ (fres = None) <=> (val = <<>> \/ val = NA)
            /\ (~isNum /\ ~isDate /\ val # <<>> /\ val # NA) => fres = StrV(val)
            /\ fval.v = S_1c234 => fres = IntV(1234)
            /\ fval.v = S_pad42 => fres = IntV(42)

\* C8 witness: "1,234" has been coerced to the integer 1234
C8_Witness ==
    fpc = "returned" /\ fcalls = 1 /\ fval = StrV(S_1c234) /\ fres = IntV(1234)

DifferOnlyAt(j) ==
    /\ row_a[j] # row_b[j]
    /\ \A k \in 1..Len(row_a) : k # j => row_a[k] = row_b[k]

\* C9 (as stated): equal rows get equal fingerprints, and two rows that
\* differ in exactly one field value get different fingerprints.
C9_AnyFieldDifference ==
    gpc = "done" =>
        /\ row_a = row_b => fp_a = fp_b
        /\ \A j \in 1..Len(row_a) : DifferOnlyAt(j) => fp_a # fp_b

\* C9 (amended): equal rows get equal fingerprints, and two rows that differ
\* in exactly one field get different fingerprints exactly when the str()
\* forms of the two values differ.
C9_StrFormDifference ==
    gpc = "done" =>
        /\ row_a = row_b => fp_a = fp_b
        /\ \A j \in 1..Len(row_a) :
               DifferOnlyAt(j) => ((fp_a # fp_b) <=> (Str(row_a[j]) # Str(row_b[j])))

\* C9 witness: two fingerprinted rows differing in one field whose str()
\* forms differ
C9_Witness ==
    /\ gpc = "done"
    /\ \E j \in 1..Len(row_a) :
           DifferOnlyAt(j) /\ Str(row_a[j]) # Str(row_b[j]) /\ fp_a # fp_b

Last(s) == s[Len(s)]

ParsedFields(line) == parse_celestrak_row(line).v

RawBatchesHanded ==
    /\ Len(db.ucs_satdb) = Len(satdb)
    /\ Len(db.celestrak_satcat) = Len(satcat_lines)

====
